---- MODULE Spec2Model ----
(***************************************************************************)
(* async_downloader: the bounded-concurrency dispatcher                   *)
(* (download_multiple_files), the per-resource transfer loop              *)
(* (download_file) and the filename sanitizer (sanitize_filename).        *)
(*                                                                         *)
(* The dispatcher runs on one asyncio event loop: a task runs without      *)
(* interruption from one await to the next.  The awaits of a transfer are  *)
(* the semaphore acquire, session.get (response headers), every chunk of   *)
(* the body and the backoff sleep; one action of the model is the code a   *)
(* task runs between two of them.                                          *)
(***************************************************************************)
EXTENDS Integers, Sequences, FiniteSets, TLC

\* ------------------------------------------------------------------ bounds
MaxUrls == 3
MaxSlots == 2
MaxRetries == 1
ContentLen == 1
MaxChunk == 2
MaxLen == 4
MaxHostLen == 2
RunUrls == 2
RunSlots == 2
RunRetries == 1
MaxPayloads == 2
MaxSpool == 2
MaxChecked == 2
FetchRetries == 2
FetchContentLen == 3

\* --------------------------------------------------------------- constants
\* response.status >= 400 raises ClientResponseError
HTTP_ERROR_MIN == 400
\* a 200 answer to a Range request: the server ignored the Range
HTTP_OK == 200
\* the answer of a server that honours the Range
HTTP_PARTIAL == 206
\* backoff_base=0.5 seconds, the default
DefaultBackoffMs == 500
\* for attempt in range(3): the posts tried for one spooled line
POST_ATTEMPTS == 3
\* HEAD is not allowed
HTTP_METHOD_NOT_ALLOWED == 405
ErrorStatuses == {404, 416, 500}

VARIABLES
    \* arguments of download_multiple_files, fixed by Init
    urls,            \* 1..n, the input list by position
    max_concurrent,
    max_retries,
    chunk_size,
    backoff_base,    \* in milliseconds
    callbacks,       \* TRUE: progress_callback and status_callback are supplied
    fname,           \* fname[i]: sanitized file name of urls[i] (an abstract name)
    finalName,       \* finalName[i]: the file name in the URL that answers for
                     \* urls[i] after redirects; fname[i] without a redirect
    content,         \* the bytes every URL's server serves
    prestaged,       \* prestaged[f]: bytes of file f when the run starts (<<>> if none)
    \* the derivation of one destination path
    nm,              \* [stage, text, hint, filename, filepath]
    \* one is_url_downloadable call
    probe,           \* [stage, host, session, sessions, closed, heads, gets,
                     \*  head, get, ok, reason]
    \* the consumer of one _LogSender, its queue and its spool file
    sender,          \* [pc, queue, put, spoolExists, spool, lines, remaining,
                     \*  cur, tries, msg, posted, owed, tried]
    \* one check_urls call: its URLs, its place in the loop and its results
    batch,           \* [stage, urls, k, results]
    \* the process: the module global and two download_multiple_files calls
    download_dir_global,
    run,             \* run[r]: [stage, dir, n, sem] of call r
    task,            \* task[r][i]: [pc, dir, attempt] of URL i of call r
    files,           \* the files opened so far: [dir, run, url]
    \* the run
    phase,           \* "running" | "summarized"
    sem,             \* asyncio.Semaphore._value
    successful, failed,
    result,          \* result[i]: what download_with_semaphore returned
    \* the filesystem of the download directory
    exists, data,
    \* download_file's frame for urls[i]
    pc, attempt, local_size, mode, hdrRange, status, total_size, downloaded, rest,
    sleep_for,       \* in microseconds, while the transfer sleeps; 0 otherwise
    outcome,         \* "none" | "success" | "failure": download_file returned / raised
    \* what the observer and the server saw
    statusCalls,     \* statusCalls[i]: the status_callback calls for urls[i]
    progLast,        \* progLast[i]: the last progress_callback call of urls[i]
    gets,            \* gets[i]: GET requests issued for urls[i]
    srvFail,         \* srvFail[i]: requests of urls[i] the server or transport failed
    restarted,       \* restarted[i]: "range_ignored_restart" was logged for urls[i]
    opened           \* opened[i]: a response below 400 has arrived for urls[i]

argVars == <<urls, max_concurrent, max_retries, chunk_size, backoff_base,
             callbacks, fname,
             finalName, content, prestaged>>
procVars == <<download_dir_global, run, task, files>>
cfgVars == <<argVars, nm, probe, sender, batch, procVars>>
runVars == <<phase, sem, successful, failed, result>>
fsVars == <<exists, data>>
frameVars == <<pc, attempt, local_size, mode, hdrRange, status, total_size,
               downloaded, rest, sleep_for, outcome>>
obsVars == <<statusCalls, progLast, gets, srvFail, restarted, opened>>
otherVars == <<argVars, probe, sender, batch, procVars, runVars, fsVars, frameVars,
               obsVars>>
transferVars == <<argVars, nm, sender, batch, procVars, runVars, fsVars, frameVars,
                  obsVars>>
singleRunVars == <<argVars, nm, probe, sender, batch, runVars, fsVars, frameVars,
                   obsVars>>
downloaderVars == <<argVars, nm, probe, batch, procVars, runVars, fsVars,
                    frameVars, obsVars>>
outsideVars == <<argVars, nm, sender, procVars, runVars, fsVars, frameVars,
                 obsVars>>
vars == <<cfgVars, runVars, fsVars, frameVars, obsVars>>

\* ------------------------------------------------------------------ helpers
Names == 1..MaxUrls
UnknownSize == 0 - 1
NoCall == [att |-> 0, down |-> 0 - 1, total |-> 0, raised |-> FALSE]

Min(a, b) == IF a < b THEN a ELSE b
Max(a, b) == IF a > b THEN a ELSE b

Bytes(len) == [k \in 1..len |-> k]

Prefix(s, k) == SubSeq(s, 1, k)
Suffix(s, k) == SubSeq(s, k + 1, Len(s))
IsPrefix(p, s) == Len(p) <= Len(s) /\ Prefix(s, Len(p)) = p

\* f.write(chunk) on a handle opened 'ab' (O_APPEND): at the end of the file.
AppendBytes(old, chunk) == old \o chunk

\* f.write(chunk) on a handle opened 'wb' whose position is p: bytes p+1.. are
\* overwritten, a gap left by a truncation by another handle reads as zeros.
WriteAt(old, p, chunk) ==
    [k \in 1..Max(Len(old), p + Len(chunk)) |->
        IF k > p /\ k <= p + Len(chunk) THEN chunk[k - p]
        ELSE IF k <= Len(old) THEN old[k]
        ELSE 0]

\* ---------------------------------------------------------- file names
\* A name is a sequence of characters; "%2F", "%2E" and "%20" are the
\* percent-escapes of "/", "." and " ", each taken as one unit, and "TAB" is
\* the tab character.  os.path is posixpath: sep is "/", altsep is None.
Chars == {"x", ".", " ", "TAB", "/", "%2F", "%2E", "%20"}

Strings(n) == UNION {[1..k -> Chars] : k \in 0..n}

\* f"download_{uuid.uuid4().hex[:8]}": two of the random names
Fallbacks == {<<"download_", "0f3a9c1e">>, <<"download_", "7b2d44a0">>}

\* abspath(download_dir), by components
DirPath == <<"cwd", "downloads">>

\* urllib.parse.unquote: every escape becomes its character
UnquoteChar(c) ==
    CASE c = "%2F" -> "/"
      [] c = "%2E" -> "."
      [] c = "%20" -> " "
      [] OTHER -> c

Unquote(s) == [k \in 1..Len(s) |-> UnquoteChar(s[k])]

\* os.path.basename: what follows the last "/"
Basename(s) ==
    LET cuts == {k \in 1..Len(s) : s[k] = "/"}
    IN  IF cuts = {} THEN s
        ELSE SubSeq(s, (CHOOSE k \in cuts : \A j \in cuts : j <= k) + 1, Len(s))

\* name.replace(os.path.sep, "_")
ReplaceSep(s) == [k \in 1..Len(s) |-> IF s[k] = "/" THEN "_" ELSE s[k]]

\* str.strip(chars): the characters of `set` are removed from both ends
Strip(s, set) ==
    LET keep == {k \in 1..Len(s) : s[k] \notin set}
    IN  IF keep = {} THEN <<>>
        ELSE SubSeq(s, CHOOSE k \in keep : \A j \in keep : k <= j,
                       CHOOSE k \in keep : \A j \in keep : j <= k)

Whitespace == {" ", "TAB"}

\* name.strip().strip('. ')
StripName(s) == Strip(Strip(s, Whitespace), {".", " "})

\* sanitize_filename up to the last test: unquote, basename, replace the
\* separators, strip.  An empty result stands for the random fallback.
SanitizeNoStrip(name) ==
    IF name = <<>> THEN <<>> ELSE ReplaceSep(Basename(Unquote(name)))

Sanitized(name) ==
    IF name = <<>> THEN <<>> ELSE StripName(ReplaceSep(Basename(Unquote(name))))

\* The components of a path: the pieces between the "/".
RECURSIVE Components(_)
Components(s) ==
    LET cuts == {k \in 1..Len(s) : s[k] = "/"}
    IN  IF cuts = {} THEN <<s>>
        ELSE LET k == CHOOSE c \in cuts : \A j \in cuts : c <= j
             IN  <<SubSeq(s, 1, k - 1)>> \o Components(SubSeq(s, k + 1, Len(s)))

\* os.path.normpath over components: "" and "." are dropped, ".." removes the
\* component before it (none above the root).
RECURSIVE Normalize(_, _)
Normalize(base, comps) ==
    IF comps = <<>> THEN base
    ELSE LET c == Head(comps)
         IN  IF c = <<>> \/ c = <<".">> THEN Normalize(base, Tail(comps))
             ELSE IF c = <<".", ".">>
                  THEN Normalize(IF base = <<>> THEN <<>>
                                 ELSE SubSeq(base, 1, Len(base) - 1), Tail(comps))
                  ELSE Normalize(Append(base, c), Tail(comps))

\* os.path.abspath(os.path.join(download_dir, name)): an absolute name replaces
\* the directory.
AbsJoin(dir, name) ==
    IF name # <<>> /\ name[1] = "/" THEN Normalize(<<>>, Components(name))
    ELSE Normalize(dir, Components(name))

\* commonpath([dir]) == commonpath([dir, path]): dir is a leading part of path
Contained(dir, path) == Len(dir) <= Len(path) /\ SubSeq(path, 1, Len(dir)) = dir

\* filename = os.path.basename(url) or f"download_{uuid...}"
DeriveHint ==
    /\ nm.stage = "url"
    /\ \E r \in Fallbacks :
        nm' = [nm EXCEPT !.stage = "hint",
                         !.hint = IF Basename(nm.text) = <<>> THEN r
                                  ELSE Basename(nm.text)]
    /\ UNCHANGED otherVars

\* filename = sanitize_filename(filename)
Sanitize ==
    /\ nm.stage = "hint"
    /\ \E r \in Fallbacks :
        nm' = [nm EXCEPT !.stage = "sanitized",
                         !.filename = IF Sanitized(nm.hint) = <<>> THEN r
                                      ELSE Sanitized(nm.hint)]
    /\ UNCHANGED otherVars

\* filepath = os.path.join(download_dir, filename), and the random name in its
\* place when the path is not under the download directory.
Resolve ==
    /\ nm.stage = "sanitized"
    /\ \E r \in Fallbacks :
        LET ok == Contained(DirPath, AbsJoin(DirPath, nm.filename))
            name == IF ok THEN nm.filename ELSE r
        IN  nm' = [nm EXCEPT !.stage = "resolved",
                             !.filename = name,
                             !.filepath = AbsJoin(DirPath, name)]
    /\ UNCHANGED otherVars

\* ------------------------------------------------------------ download_file
\* mode = 'wb'; if local_size > 0: headers['Range'] = ...; mode = 'ab'
OpenModeTruncate(size) == "wb"

OpenMode(size) == IF size > 0 THEN "ab" ELSE "wb"

\* if local_size > 0 and response.status == 200: the server ignored the Range
RangeIgnoredNever(size, st) == FALSE

RangeIgnored(size, st) == size > 0 /\ st = HTTP_OK

\* The content-length header of a response: none, one that int() rejects, or
\* the length of the body.
ContentLengths == {"absent", "garbled", "integer"}

\* total_size = int(content_length) + (0 if mode == 'wb' else local_size),
\* None (UnknownSize) without a content-length header or when int() raises
TotalSize(clen, bodyLen, m, size) ==
    IF clen = "integer" THEN bodyLen + (IF m = "wb" THEN 0 ELSE size)
    ELSE UnknownSize

\* downloaded = local_size
InitialDownloadedZero(size) == 0

InitialDownloaded(size) == size

\* if attempt > max_retries: raise e   (attempt already incremented)
RetriesExhaustedNoRetry(att) == att >= 1

RetriesExhaustedOffByOne(att) == att >= max_retries

RetriesExhaustedOneLate(att) == att > max_retries + 1

RetriesExhausted(att) == att > max_retries

\* download_with_semaphore after download_file ended with outcome oc: the
\* status_callback calls it makes and the value it returns.  `raises` says
\* whether the callback raises; both calls sit in try/except Exception: pass.
Call(st, raises) == [status |-> st, raised |-> raises]

\* The same without the inner try/except around status_callback(...,
\* 'completed', ...): its exception reaches `except Exception as e`, which
\* reports 'failed' and returns e.
NotifyUnguarded(oc, raises) ==
    IF oc = "success"
    THEN IF callbacks /\ raises
         THEN [calls |-> <<Call("completed", TRUE), Call("failed", FALSE)>>,
               result |-> "exception"]
         ELSE [calls |-> IF callbacks THEN <<Call("completed", raises)>> ELSE <<>>,
               result |-> "path"]
    ELSE [calls |-> IF callbacks THEN <<Call("failed", raises)>> ELSE <<>>,
          result |-> "exception"]

Notify(oc, raises) ==
    IF oc = "success"
    THEN [calls |-> IF callbacks THEN <<Call("completed", raises)>> ELSE <<>>,
          result |-> "path"]
    ELSE [calls |-> IF callbacks THEN <<Call("failed", raises)>> ELSE <<>>,
          result |-> "exception"]

\* asyncio.Semaphore: acquire() returns at once while the value is positive,
\* and waits otherwise.
SlotAlwaysFree == TRUE

SlotFree == sem > 0

\* `async with semaphore` leaves by release(), whatever the outcome oc.
SemAfterExitOnSuccess(oc) == IF oc = "success" THEN sem + 1 ELSE sem

SemAfterExit(oc) == sem + 1

\* isinstance(result, Exception) in the summary loop
IsFailureNever(r) == FALSE

IsFailure(r) == r = "exception"

\* if local_size > 0: headers['Range'] = f'bytes={local_size}-'
\* The offset of the Range header, 0 for a request without one.
RangeHeaderNever(size) == 0

RangeHeader(size) == IF size > 0 THEN size ELSE 0

\* filepath, joined once before the attempt loop from the name of the
\* requested URL; session.get follows redirects and the URL that answered is
\* not looked at.
DestOfFinalUrl(i) == finalName[i]

Dest(i) == fname[i]

\* The top of one iteration of `while True` up to `await session.get`: the size
\* of the file on disk decides the Range header and the open mode.
IssueGet(i) ==
    LET size == IF exists[Dest(i)] THEN Len(data[Dest(i)]) ELSE 0
    IN  /\ local_size' = [local_size EXCEPT ![i] = size]
        /\ hdrRange' = [hdrRange EXCEPT ![i] = RangeHeader(size)]
        /\ mode' = [mode EXCEPT ![i] = OpenMode(size)]
        /\ gets' = [gets EXCEPT ![i] = @ + 1]
        /\ pc' = [pc EXCEPT ![i] = "get"]
        /\ status' = [status EXCEPT ![i] = 0]
        /\ sleep_for' = [sleep_for EXCEPT ![i] = 0]
        /\ UNCHANGED <<total_size, downloaded, rest>>

\* download_file has ended with outcome oc: download_with_semaphore reports it,
\* returns, and `async with semaphore` releases the slot; no await in between.
\* The frame of download_file is gone: its locals are cleared, but for the
\* Range header and the status of the last response, kept for the record.
Finish(i, oc, raises) ==
    /\ outcome' = [outcome EXCEPT ![i] = oc]
    /\ statusCalls' = [statusCalls EXCEPT ![i] = @ \o Notify(oc, raises).calls]
    /\ result' = [result EXCEPT ![i] = Notify(oc, raises).result]
    /\ sem' = SemAfterExit(oc)
    /\ pc' = [pc EXCEPT ![i] = "done"]
    /\ local_size' = [local_size EXCEPT ![i] = 0]
    /\ mode' = [mode EXCEPT ![i] = "wb"]
    /\ total_size' = [total_size EXCEPT ![i] = UnknownSize]
    /\ downloaded' = [downloaded EXCEPT ![i] = 0]
    /\ rest' = [rest EXCEPT ![i] = <<>>]

\* `async with semaphore:` admits urls[i]; download_file starts (attempt = 0)
\* and runs to its first GET.
Acquire(i) ==
    /\ phase = "running"
    /\ pc[i] = "queued"
    /\ SlotFree
    /\ sem' = sem - 1
    /\ attempt' = [attempt EXCEPT ![i] = 0]
    /\ IssueGet(i)
    /\ UNCHANGED <<cfgVars, phase, successful, failed, result, fsVars, outcome,
                   statusCalls, progLast, srvFail, restarted,
                   opened>>

\* random.random(), a number in [0, 1), in thousandths
Randoms == {0, 995}

\* 2 ** n
RECURSIVE Pow2(_)
Pow2(n) == IF n = 0 THEN 1 ELSE 2 * Pow2(n - 1)

\* sleep_for = backoff_base * (2 ** (attempt - 1)) * (0.8 + random.random() * 0.4)
\* with base in milliseconds and r in thousandths: the result in microseconds.
SleepForNoDoubling(base, att, r) == base * (800 + (400 * r) \div 1000)

SleepFor(base, att, r) == base * Pow2(att - 1) * (800 + (400 * r) \div 1000)

\* except Exception: attempt += 1; raise when the retries are exhausted, else
\* sleep and retry.  The request or the stream of urls[i] has just failed; the
\* response and the locals computed from it are dead and are cleared.  st is
\* the error status the response had, 0 for a failure of another kind: it is
\* kept for the record while the transfer sleeps.
Failed(i, st) ==
    /\ attempt' = [attempt EXCEPT ![i] = @ + 1]
    /\ status' = [status EXCEPT ![i] =
                     IF RetriesExhausted(attempt[i] + 1) THEN 0 ELSE st]
    /\ srvFail' = [srvFail EXCEPT ![i] = IF pc[i] = "raised" THEN @ ELSE @ + 1]
    /\ hdrRange' = [hdrRange EXCEPT ![i] = 0]
    /\ IF RetriesExhausted(attempt[i] + 1)
       THEN /\ \E raises \in BOOLEAN : Finish(i, "failure", raises)
            /\ UNCHANGED sleep_for
       ELSE /\ pc' = [pc EXCEPT ![i] = "sleep"]
            /\ \E r \in Randoms :
                  sleep_for' = [sleep_for EXCEPT ![i] =
                                   SleepFor(backoff_base, attempt[i] + 1, r)]
            /\ local_size' = [local_size EXCEPT ![i] = 0]
            /\ mode' = [mode EXCEPT ![i] = "wb"]
            /\ total_size' = [total_size EXCEPT ![i] = UnknownSize]
            /\ downloaded' = [downloaded EXCEPT ![i] = 0]
            /\ rest' = [rest EXCEPT ![i] = <<>>]
            /\ UNCHANGED <<outcome, statusCalls, result, sem>>
    /\ UNCHANGED <<cfgVars, phase, successful, failed, progLast, gets,
                   restarted, opened>>

\* session.get raises: connection refused, DNS failure, timeout.
TransportError(i) ==
    /\ pc[i] = "get"
    /\ Failed(i, 0)
    /\ UNCHANGED fsVars

\* The files after a response with an error status: the status is tested
\* right after the headers arrive, before open(filepath, mode).
FilesAfterErrorOpened(i) ==
    [exists |-> [exists EXCEPT ![Dest(i)] = TRUE],
     data |-> [data EXCEPT ![Dest(i)] =
                  IF mode[i] = "wb" \/ ~exists[Dest(i)] THEN <<>> ELSE @]]

FilesAfterError(i) == [exists |-> exists, data |-> data]

\* The response has an error status: ClientResponseError is raised before the
\* file is opened.
HttpError(i) ==
    /\ pc[i] = "get"
    /\ \E st \in ErrorStatuses :
        /\ st >= HTTP_ERROR_MIN
        /\ Failed(i, st)
    /\ exists' = FilesAfterError(i).exists
    /\ data' = FilesAfterError(i).data

\* The response headers arrive with status 200 (the full body follows) or, to
\* a Range request, 206 (the bytes from the requested offset follow), with or
\* without a content-length header.  The file is opened: 'wb' truncates it.
ResponseOk(i) ==
    /\ pc[i] = "get"
    /\ \E st \in {HTTP_OK, HTTP_PARTIAL}, clen \in ContentLengths :
        /\ st = HTTP_PARTIAL => hdrRange[i] > 0
        /\ LET body == IF st = HTTP_PARTIAL THEN Suffix(content, hdrRange[i])
                       ELSE content
               ignored == RangeIgnored(local_size[i], st)
               m == IF ignored THEN "wb" ELSE mode[i]
               size == IF ignored THEN 0 ELSE local_size[i]
               f == Dest(i)
           IN  /\ status' = [status EXCEPT ![i] = st]
               /\ mode' = [mode EXCEPT ![i] = m]
               /\ local_size' = [local_size EXCEPT ![i] = size]
               /\ total_size' = [total_size EXCEPT ![i] =
                                    TotalSize(clen, Len(body), m, size)]
               /\ downloaded' = [downloaded EXCEPT ![i] = InitialDownloaded(size)]
               /\ rest' = [rest EXCEPT ![i] = body]
               /\ restarted' = [restarted EXCEPT ![i] = @ \/ ignored]
               /\ opened' = [opened EXCEPT ![i] = TRUE]
               /\ exists' = [exists EXCEPT ![f] = TRUE]
               /\ data' = [data EXCEPT ![f] =
                              IF m = "wb" \/ ~exists[f] THEN <<>> ELSE @]
    /\ pc' = [pc EXCEPT ![i] = "stream"]
    /\ UNCHANGED <<cfgVars, runVars, attempt, hdrRange, sleep_for, outcome, statusCalls,
                   progLast, gets, srvFail>>

\* try: progress_callback(...) except Exception: pass -- whether an exception
\* of the callback leaves the chunk loop.
ProgressEscapesAlways(raises) == raises

ProgressEscapes(raises) == FALSE

\* total_size or 0: the total handed to progress_callback
ReportedTotalRaw(t) == t

ReportedTotal(t) == IF t = UnknownSize THEN 0 ELSE t

\* async for chunk in response.content.iter_chunked(chunk_size): one chunk of
\* at most chunk_size bytes is written, counted and reported.  An exception
\* of progress_callback is swallowed; one that left the loop would end the
\* attempt like a broken connection (position "raised").
Chunk(i) ==
    /\ pc[i] = "stream"
    /\ rest[i] # <<>>
    /\ \E k \in 1..Min(chunk_size, Len(rest[i])), raises \in BOOLEAN :
        LET chunk == Prefix(rest[i], k)
            f == Dest(i)
            total == ReportedTotal(total_size[i])
        IN  /\ data' = [data EXCEPT ![f] =
                           IF mode[i] = "ab" THEN AppendBytes(@, chunk)
                           ELSE WriteAt(@, downloaded[i], chunk)]
            /\ downloaded' = [downloaded EXCEPT ![i] = @ + k]
            /\ rest' = [rest EXCEPT ![i] = Suffix(@, k)]
            /\ progLast' = IF callbacks
                           THEN [progLast EXCEPT ![i] =
                                    [att |-> gets[i], down |-> downloaded[i] + k,
                                     total |-> total, raised |-> raises]]
                           ELSE progLast
            /\ pc' = IF callbacks /\ ProgressEscapes(raises)
                     THEN [pc EXCEPT ![i] = "raised"]
                     ELSE pc
    /\ UNCHANGED <<cfgVars, runVars, exists, attempt, local_size, mode, sleep_for,
                   hdrRange, status, total_size, outcome, statusCalls, gets,
                   srvFail, restarted,
                   opened>>

\* The body ends: the file is closed and download_file returns filepath.
StreamEnd(i) ==
    /\ pc[i] = "stream"
    /\ rest[i] = <<>>
    /\ \E raises \in BOOLEAN : Finish(i, "success", raises)
    /\ UNCHANGED <<cfgVars, phase, successful, failed, fsVars, attempt,
                   hdrRange, status, sleep_for, progLast, gets, srvFail, restarted,
                   opened>>

\* The connection breaks before the body is complete: the iteration raises,
\* the file is closed with the bytes written so far.
Disconnect(i) ==
    /\ \/ pc[i] = "stream" /\ rest[i] # <<>>
       \/ pc[i] = "raised"
    /\ Failed(i, 0)
    /\ UNCHANGED fsVars

\* asyncio.sleep(sleep_for) returns: `continue`, the next attempt.
Wake(i) ==
    /\ pc[i] = "sleep"
    /\ IssueGet(i)
    /\ UNCHANGED <<cfgVars, runVars, fsVars, attempt, outcome, statusCalls,
                   progLast, srvFail, restarted,
                   opened>>

\* ---------------------------------------------------- download_multiple_files
\* asyncio.gather has every result: count the exceptions and the paths.
Summarize ==
    /\ phase = "running"
    /\ \A i \in urls : pc[i] = "done"
    /\ successful' = Cardinality({i \in urls : ~IsFailure(result[i])})
    /\ failed' = Cardinality({i \in urls : IsFailure(result[i])})
    /\ phase' = "summarized"
    /\ UNCHANGED <<cfgVars, sem, result, fsVars, frameVars, obsVars>>

\* The transfers take their file names as given.
NoName == [stage |-> "none", text |-> <<>>, hint |-> <<>>, filename |-> <<>>,
           filepath |-> <<>>]

\* No response: the request was not issued, or it raised.
NoAnswer == [kind |-> "none", status |-> 0, ctype |-> "", cdisp |-> FALSE,
             clen |-> FALSE]

\* No URL is being probed.
NoProbe == [stage |-> "none", host |-> <<>>, session |-> "none", sessions |-> 0,
            closed |-> FALSE, heads |-> 0, gets |-> 0, head |-> NoAnswer,
            get |-> NoAnswer, ok |-> "none", reason |-> ""]

\* No check_urls call.
NoBatch == [stage |-> "none", urls |-> <<>>, k |-> 0, results |-> <<>>]

\* No log sender is configured.
NoSender ==
    [pc |-> "none", queue |-> <<>>, put |-> 0, spoolExists |-> FALSE,
     spool |-> <<>>, lines |-> <<>>, remaining |-> <<>>, cur |-> 0, tries |-> 0,
     msg |-> 0, posted |-> {}, owed |-> {}, tried |-> {}]

\* The module as imported: no download_multiple_files call yet.
DEFAULT_DOWNLOAD_DIR == "downloads"
NoRuns ==
    /\ download_dir_global = DEFAULT_DOWNLOAD_DIR
    /\ run = <<>>
    /\ task = <<>>
    /\ files = {}

\* The state at the first await of download_multiple_files(urls, ...): the
\* semaphore is full, every task is created and none has run.
Start(n, slots, retries, cb, names, bytes, staged) ==
    /\ urls = 1..n
    /\ max_concurrent = slots
    /\ max_retries = retries
    /\ chunk_size = MaxChunk
    /\ callbacks = cb
    /\ fname = names
    /\ content = bytes
    /\ prestaged = staged
    /\ phase = "running"
    /\ sem = slots
    /\ successful = 0
    /\ failed = 0
    /\ result = [i \in 1..n |-> "none"]
    /\ exists = [f \in Names |-> staged[f] # <<>>]
    /\ data = staged
    /\ pc = [i \in 1..n |-> "queued"]
    /\ attempt = [i \in 1..n |-> 0]
    /\ local_size = [i \in 1..n |-> 0]
    /\ mode = [i \in 1..n |-> "wb"]
    /\ hdrRange = [i \in 1..n |-> 0]
    /\ status = [i \in 1..n |-> 0]
    /\ total_size = [i \in 1..n |-> UnknownSize]
    /\ downloaded = [i \in 1..n |-> 0]
    /\ rest = [i \in 1..n |-> <<>>]
    /\ sleep_for = [i \in 1..n |-> 0]
    /\ outcome = [i \in 1..n |-> "none"]
    /\ statusCalls = [i \in 1..n |-> <<>>]
    /\ progLast = [i \in 1..n |-> NoCall]
    /\ gets = [i \in 1..n |-> 0]
    /\ srvFail = [i \in 1..n |-> 0]
    /\ restarted = [i \in 1..n |-> FALSE]
    /\ opened = [i \in 1..n |-> FALSE]

\* The file names of n URLs: all different, or the first two the same.
NameChoices(n) ==
    {[i \in 1..n |-> i]} \cup
    (IF n >= 2 THEN {[i \in 1..n |-> IF i = 2 THEN 1 ELSE i]} ELSE {})

NoFiles == [f \in Names |-> <<>>]

\* A run over several URLs into an empty download directory.
Init ==
    \E n \in 1..MaxUrls, slots \in 1..MaxSlots, retries \in 0..MaxRetries,
       cb \in BOOLEAN :
        \E names \in NameChoices(n) :
            /\ Start(n, slots, retries, cb, names, Bytes(ContentLen), NoFiles)
            /\ finalName = names
            /\ backoff_base = DefaultBackoffMs
            /\ sender = NoSender
            /\ batch = NoBatch
            /\ nm = NoName
            /\ probe = NoProbe
            /\ NoRuns

\* The files a single transfer may find: none, a part of the content, all of
\* it, or bytes of something else.
StagedChoices(bytes) ==
    {[f \in Names |-> IF f = 1 THEN s ELSE <<>>] :
        s \in {Prefix(bytes, k) : k \in 0..Len(bytes)} \cup {<<0>>}}

\* One transfer, with more retries and a longer body.
InitFetch ==
    \E retries \in 0..FetchRetries, cb \in BOOLEAN, final \in Names :
        \E staged \in StagedChoices(Bytes(FetchContentLen)) :
            /\ finalName = [i \in 1..1 |-> final]
            /\ backoff_base \in {DefaultBackoffMs \div 2, DefaultBackoffMs}
            /\ sender = NoSender
            /\ batch = NoBatch
            /\ Start(1, 1, retries, cb, [i \in 1..1 |-> 1],
                     Bytes(FetchContentLen), staged)
            /\ nm = NoName
            /\ probe = NoProbe
            /\ NoRuns

\* The derivation of one destination path: from a URL, as
\* download_with_semaphore and download_file(filename=None) do, or from a
\* filename hint handed to download_file.  No transfer runs.
InitPath ==
    /\ Start(0, 1, 0, FALSE, <<>>, <<>>, NoFiles)
    /\ finalName = <<>>
    /\ backoff_base = DefaultBackoffMs
    /\ sender = NoSender
    /\ batch = NoBatch
    /\ probe = NoProbe
    /\ NoRuns
    /\ \E st \in {"url", "hint"}, t \in Strings(MaxLen) :
        nm = [stage |-> st, text |-> t, hint |-> IF st = "hint" THEN t ELSE <<>>,
              filename |-> <<>>, filepath |-> <<>>]

NextPath ==
    \/ DeriveHint
    \/ Sanitize
    \/ Resolve

SpecPath == InitPath /\ [][NextPath]_vars

\* ------------------------------------------------------- is_url_downloadable
\* The host name is a string of these pieces; an entry of the blocklist is one
\* piece, so that a host ends with the entry when its last piece is the entry.
DEFAULT_BLOCKLIST == {"google.com", "youtube.com", "facebook.com"}
HostTokens ==
    {"www.", "example.org", ".", "google.com", "GOOGLE.COM", "youtube.com",
     "facebook.com"}
Hosts(n) == UNION {[1..k -> HostTokens] : k \in 0..n}

\* str.lower()
LowerToken(t) == IF t = "GOOGLE.COM" THEN "google.com" ELSE t
Lower(h) == [k \in 1..Len(h) |-> LowerToken(h[k])]

\* str.endswith(b), for a b that is one piece
EndsWith(h, b) == Len(h) > 0 /\ h[Len(h)] = b

\* for blocked in DEFAULT_BLOCKLIST: if host.endswith(blocked)
HostBlockedExact(h) == h \in {<<b>> : b \in DEFAULT_BLOCKLIST}

HostBlocked(h) == \E b \in DEFAULT_BLOCKLIST : EndsWith(h, b)

\* What a server can answer to the probe: the final status after redirects and
\* the three headers the prober reads.  The content type is absent (""), an
\* HTML one, or another one.
ProbeStatuses == {HTTP_OK, HTTP_PARTIAL, 404, HTTP_METHOD_NOT_ALLOWED}
HtmlType == "text/html; charset=utf-8"
CTypes == {"", HtmlType, "application/pdf"}
Answers ==
    [kind : {"answer"}, status : ProbeStatuses, ctype : CTypes, cdisp : BOOLEAN,
     clen : BOOLEAN]
ErrorKinds == {"timeout", "transport", "response_error"}
Raised(kind) == [NoAnswer EXCEPT !.kind = kind]

\* "text/html" in ctype
IsHtml(ctype) == ctype = HtmlType

\* The body of `async with session.head(...)`: the verdict, or "ambiguous"
\* when the block ends without a return.
HeadDecisionNeedsType(a) ==
    IF a.status >= HTTP_ERROR_MIN THEN [ok |-> "no", reason |-> "head_status"]
    ELSE IF (a.cdisp \/ a.clen) /\ ~IsHtml(a.ctype)
         THEN [ok |-> "yes", reason |-> "head_length_or_disposition"]
    ELSE IF a.ctype # "" /\ ~IsHtml(a.ctype)
         THEN [ok |-> "yes", reason |-> "head_content_type"]
    ELSE [ok |-> "ambiguous", reason |-> ""]

HeadDecision(a) ==
    IF a.status >= HTTP_ERROR_MIN THEN [ok |-> "no", reason |-> "head_status"]
    ELSE IF a.cdisp \/ a.clen
         THEN [ok |-> "yes", reason |-> "head_length_or_disposition"]
    ELSE IF a.ctype # "" /\ ~IsHtml(a.ctype)
         THEN [ok |-> "yes", reason |-> "head_content_type"]
    ELSE [ok |-> "ambiguous", reason |-> ""]

\* The body of `async with session.get(...)`.
GetDecision(a) ==
    IF a.status >= HTTP_ERROR_MIN THEN [ok |-> "no", reason |-> "get_status"]
    ELSE IF a.cdisp THEN [ok |-> "yes", reason |-> "get_disposition"]
    ELSE IF a.ctype # "" /\ ~IsHtml(a.ctype)
         THEN [ok |-> "yes", reason |-> "get_content_type"]
    ELSE [ok |-> "no", reason |-> "likely_html"]

\* A return or a raise after the session exists: the finally clause closes a
\* session the call created itself.
Returned(p, d) ==
    [p EXCEPT !.stage = "done", !.ok = d.ok, !.reason = d.reason,
              !.closed = (p.session = "none")]

\* session.get(url, headers={"Range": "bytes=0-0"}) is issued.
GetIssued(p) == [p EXCEPT !.stage = "get", !.gets = @ + 1]

\* From the call to the first await: the blocklist test, then the session and
\* the HEAD request.
ProbeBegin ==
    /\ probe.stage = "start"
    /\ probe' =
        IF HostBlocked(Lower(probe.host))
        THEN [probe EXCEPT !.stage = "done", !.ok = "no", !.reason = "blocked"]
        ELSE [probe EXCEPT !.stage = "head", !.heads = @ + 1,
                           !.sessions = IF probe.session = "none" THEN 1 ELSE 0]
    /\ UNCHANGED transferVars

\* The HEAD request is answered.
HeadAnswer ==
    /\ probe.stage = "head"
    /\ \E a \in Answers :
        LET p == [probe EXCEPT !.head = a]
            d == HeadDecision(a)
        IN  probe' = IF d.ok = "ambiguous" THEN GetIssued(p) ELSE Returned(p, d)
    /\ UNCHANGED transferVars

\* The HEAD request raises: both except clauses pass on to the GET probe.
HeadError ==
    /\ probe.stage = "head"
    /\ \E kind \in ErrorKinds :
        probe' = GetIssued([probe EXCEPT !.head = Raised(kind)])
    /\ UNCHANGED transferVars

\* The GET probe is answered.
GetAnswer ==
    /\ probe.stage = "get"
    /\ \E a \in Answers :
        probe' = Returned([probe EXCEPT !.get = a], GetDecision(a))
    /\ UNCHANGED transferVars

\* The GET probe raises: no except clause covers it, the exception leaves
\* is_url_downloadable through the finally clause.
GetError ==
    /\ probe.stage = "get"
    /\ \E kind \in ErrorKinds :
        probe' = Returned([probe EXCEPT !.get = Raised(kind)],
                          [ok |-> "raised", reason |-> kind])
    /\ UNCHANGED transferVars

\* One call of is_url_downloadable, with a session handed in or without.
InitProbe ==
    /\ Start(0, 1, 0, FALSE, <<>>, <<>>, NoFiles)
    /\ finalName = <<>>
    /\ backoff_base = DefaultBackoffMs
    /\ sender = NoSender
    /\ batch = NoBatch
    /\ nm = NoName
    /\ NoRuns
    /\ \E h \in Hosts(MaxHostLen), ses \in {"none", "given"} :
        probe = [NoProbe EXCEPT !.stage = "start", !.host = h, !.session = ses]

NextProbe ==
    \/ ProbeBegin
    \/ HeadAnswer
    \/ HeadError
    \/ GetAnswer
    \/ GetError

SpecProbe == InitProbe /\ [][NextProbe]_vars

\* ------------------------------------- two download_multiple_files calls
\* Two calls in one event loop, each with its own download_dir, interleaved at
\* their awaits.  A transfer is followed as far as the directory it writes to:
\* the body's bytes are left out.
Runs == {1, 2}
RunDir(r) == IF r = 1 THEN "dir_a" ELSE "dir_b"

\* download_multiple_files(urls, download_dir) up to `await asyncio.gather`:
\* the global is set, the semaphore and the tasks are created.
RunBegin(r) ==
    /\ run[r].stage = "idle"
    /\ download_dir_global' = run[r].dir
    /\ run' = [run EXCEPT ![r].stage = "running"]
    /\ UNCHANGED <<task, files, singleRunVars>>

\* `async with semaphore:` admits URL i of call r; download_file reads the
\* global into download_dir, joins the path and issues its first GET.
TaskAdmit(r, i) ==
    /\ run[r].stage = "running"
    /\ task[r][i].pc = "queued"
    /\ run[r].sem > 0
    /\ run' = [run EXCEPT ![r].sem = @ - 1]
    /\ task' = [task EXCEPT ![r][i] =
                   [pc |-> "get", dir |-> download_dir_global, attempt |-> 0]]
    /\ UNCHANGED <<download_dir_global, files, singleRunVars>>

\* The response arrives below 400: open(filepath, mode) creates the file in
\* the directory download_file read at its start.
TaskOpen(r, i) ==
    /\ task[r][i].pc = "get"
    /\ task' = [task EXCEPT ![r][i].pc = "stream"]
    /\ files' = files \cup {[dir |-> task[r][i].dir, run |-> r, url |-> i]}
    /\ UNCHANGED <<download_dir_global, run, singleRunVars>>

\* The request or the stream fails: attempt += 1, then sleep or raise; a raise
\* releases the slot.
TaskFail(r, i) ==
    /\ task[r][i].pc \in {"get", "stream"}
    /\ IF RetriesExhausted(task[r][i].attempt + 1)
       THEN /\ task' = [task EXCEPT ![r][i].pc = "done", ![r][i].attempt = @ + 1]
            /\ run' = [run EXCEPT ![r].sem = @ + 1]
       ELSE /\ task' = [task EXCEPT ![r][i].pc = "sleep", ![r][i].attempt = @ + 1]
            /\ UNCHANGED run
    /\ UNCHANGED <<download_dir_global, files, singleRunVars>>

\* asyncio.sleep returns: the next GET, for the same filepath.
TaskWake(r, i) ==
    /\ task[r][i].pc = "sleep"
    /\ task' = [task EXCEPT ![r][i].pc = "get"]
    /\ UNCHANGED <<download_dir_global, run, files, singleRunVars>>

\* The body ends: download_file returns and the slot is released.
TaskEnd(r, i) ==
    /\ task[r][i].pc = "stream"
    /\ task' = [task EXCEPT ![r][i].pc = "done"]
    /\ run' = [run EXCEPT ![r].sem = @ + 1]
    /\ UNCHANGED <<download_dir_global, files, singleRunVars>>

\* asyncio.gather has every result: download_multiple_files returns.
RunReturn(r) ==
    /\ run[r].stage = "running"
    /\ \A i \in 1..run[r].n : task[r][i].pc = "done"
    /\ run' = [run EXCEPT ![r].stage = "returned"]
    /\ UNCHANGED <<download_dir_global, task, files, singleRunVars>>

\* Two calls are about to be made, with different directories.
InitRuns ==
    /\ \E retries \in 0..RunRetries :
        Start(0, 1, retries, FALSE, <<>>, <<>>, NoFiles)
    /\ finalName = <<>>
    /\ backoff_base = DefaultBackoffMs
    /\ sender = NoSender
    /\ batch = NoBatch
    /\ nm = NoName
    /\ probe = NoProbe
    /\ download_dir_global = DEFAULT_DOWNLOAD_DIR
    /\ files = {}
    /\ \E n \in [Runs -> 1..RunUrls], slots \in [Runs -> 1..RunSlots] :
        /\ run = [r \in Runs |-> [stage |-> "idle", dir |-> RunDir(r), n |-> n[r],
                                  sem |-> slots[r]]]
        /\ task = [r \in Runs |->
                      [i \in 1..n[r] |-> [pc |-> "queued", dir |-> "", attempt |-> 0]]]

NextRuns ==
    \/ \E r \in Runs : RunBegin(r)
    \/ \E r \in Runs : \E i \in 1..run[r].n : TaskAdmit(r, i)
    \/ \E r \in Runs : \E i \in 1..run[r].n : TaskOpen(r, i)
    \/ \E r \in Runs : \E i \in 1..run[r].n : TaskFail(r, i)
    \/ \E r \in Runs : \E i \in 1..run[r].n : TaskWake(r, i)
    \/ \E r \in Runs : \E i \in 1..run[r].n : TaskEnd(r, i)
    \/ \E r \in Runs : RunReturn(r)

SpecRuns == InitRuns /\ [][NextRuns]_vars

\* ------------------------------------------------------ _LogSender._consumer
\* A payload is a positive number; a line of the spool file is a payload or 0,
\* a line json.loads rejects; STOP is the None that stop() puts on the queue.
STOP == 0 - 1
CORRUPT == 0
OldEntries == {8, 9}
SpoolFiles(n) == UNION {[1..k -> OldEntries \cup {CORRUPT}] : k \in 0..n}
Elements(q) == {q[k] : k \in 1..Len(q)}

\* The lines from the first one json.loads accepts.
RECURSIVE SkipCorrupt(_)
SkipCorrupt(ls) ==
    IF ls = <<>> THEN <<>>
    ELSE IF Head(ls) = CORRUPT THEN SkipCorrupt(Tail(ls))
    ELSE ls

\* The spool is rewritten with the lines that were not sent, or removed when
\* there are none; written says whether the file operation went through
\* (else `except Exception: pass`).  The consumer then waits on the queue.
Rewritten(s, written) ==
    IF written
    THEN [s EXCEPT !.pc = "get", !.spool = s.remaining,
                   !.spoolExists = s.remaining # <<>>,
                   !.lines = <<>>, !.remaining = <<>>, !.cur = 0, !.tries = 0]
    ELSE [s EXCEPT !.pc = "get", !.lines = <<>>, !.remaining = <<>>, !.cur = 0,
                   !.tries = 0]

\* `for line in lines` goes on: the next line json.loads accepts is posted,
\* and after the last line the spool is rewritten.
Proceed(s, written) ==
    LET ls == SkipCorrupt(s.lines)
    IN  IF ls # <<>>
        THEN [s EXCEPT !.pc = "post_spool", !.cur = Head(ls), !.lines = Tail(ls),
                       !.tries = 0, !.tried = @ \cup {Head(ls)}]
        ELSE Rewritten(s, written)

\* enqueue(payload), from the logging thread
Enqueue ==
    /\ sender.pc \notin {"none", "stopped"}
    /\ sender.put < MaxPayloads
    /\ STOP \notin Elements(sender.queue)
    /\ sender' = [sender EXCEPT !.put = @ + 1, !.queue = Append(@, sender.put + 1)]
    /\ UNCHANGED downloaderVars

\* stop()
StopSender ==
    /\ sender.pc \notin {"none", "stopped"}
    /\ STOP \notin Elements(sender.queue)
    /\ sender' = [sender EXCEPT !.queue = Append(@, STOP)]
    /\ UNCHANGED downloaderVars

\* The top of `while True`: the spool file, when there is one, is read (a read
\* that raises gives no lines) and its first line is posted.
BeginIteration ==
    /\ sender.pc = "top"
    /\ \E read \in BOOLEAN, written \in BOOLEAN :
        sender' =
            IF sender.spoolExists
            THEN Proceed([sender EXCEPT !.lines = IF read THEN sender.spool ELSE <<>>,
                                        !.remaining = <<>>, !.tried = {}],
                         written)
            ELSE [sender EXCEPT !.pc = "get", !.tried = {}]
    /\ UNCHANGED downloaderVars

\* session.post of a spooled line returns: sent, on to the next line.
SpoolPostOk ==
    /\ sender.pc = "post_spool"
    /\ \E written \in BOOLEAN :
        sender' = Proceed([sender EXCEPT !.posted = @ \cup {sender.cur}], written)
    /\ UNCHANGED downloaderVars

\* session.post of a spooled line raises: sleep 0.5 * 2 ** attempt.
SpoolPostFail ==
    /\ sender.pc = "post_spool"
    /\ sender' = [sender EXCEPT !.pc = "backoff"]
    /\ UNCHANGED downloaderVars

\* The sleep returns: the next of the POST_ATTEMPTS attempts, or the line is
\* kept in `remaining`.
SpoolRetry ==
    /\ sender.pc = "backoff"
    /\ \E written \in BOOLEAN :
        sender' =
            IF sender.tries + 1 < POST_ATTEMPTS
            THEN [sender EXCEPT !.pc = "post_spool", !.tries = @ + 1]
            ELSE Proceed([sender EXCEPT !.remaining = Append(@, sender.cur)],
                         written)
    /\ UNCHANGED downloaderVars

\* queue.get() returns: None ends the consumer, a payload is posted.
Dequeue ==
    /\ sender.pc = "get"
    /\ sender.queue # <<>>
    /\ LET m == Head(sender.queue)
       IN  sender' =
               IF m = STOP
               THEN [sender EXCEPT !.pc = "stopped", !.queue = Tail(@)]
               ELSE [sender EXCEPT !.pc = "post_msg", !.queue = Tail(@), !.msg = m,
                                   !.owed = @ \cup {m}]
    /\ UNCHANGED downloaderVars

\* session.post of the payload returns.
MsgPostOk ==
    /\ sender.pc = "post_msg"
    /\ sender' = [sender EXCEPT !.pc = "top", !.posted = @ \cup {sender.msg},
                                !.msg = 0]
    /\ UNCHANGED downloaderVars

\* session.post of the payload raises: the payload is appended to the spool,
\* unless the append raises too (`except Exception: pass`).
MsgPostFail ==
    /\ sender.pc = "post_msg"
    /\ \E appended \in BOOLEAN :
        sender' =
            IF appended
            THEN [sender EXCEPT !.pc = "top", !.spool = Append(@, sender.msg),
                                !.spoolExists = TRUE, !.msg = 0]
            ELSE [sender EXCEPT !.pc = "top", !.msg = 0]
    /\ UNCHANGED downloaderVars

\* The consumer starts, with or without a spool file left by an earlier run.
InitSender ==
    /\ Start(0, 1, 0, FALSE, <<>>, <<>>, NoFiles)
    /\ finalName = <<>>
    /\ backoff_base = DefaultBackoffMs
    /\ nm = NoName
    /\ probe = NoProbe
    /\ NoRuns
    /\ batch = NoBatch
    /\ \E f \in SpoolFiles(MaxSpool), there \in BOOLEAN :
        /\ there \/ f = <<>>
        /\ sender = [NoSender EXCEPT !.pc = "top", !.spool = f,
                                     !.spoolExists = there,
                                     !.owed = Elements(f) \ {CORRUPT}]

NextSender ==
    \/ Enqueue
    \/ StopSender
    \/ BeginIteration
    \/ SpoolPostOk
    \/ SpoolPostFail
    \/ SpoolRetry
    \/ Dequeue
    \/ MsgPostOk
    \/ MsgPostFail

SpecSender == InitSender /\ [][NextSender]_vars

\* ------------------------------------------------------------------ check_urls
\* The URLs of a check_urls call, by host: one a server answers for and one of
\* the blocklist.
CheckHosts == {<<"example.org">>, <<"www.", "google.com">>}
UrlLists(n) == UNION {[1..k -> CheckHosts] : k \in 0..n}

\* `for url in urls`: is_url_downloadable is called for the next URL, with the
\* session of check_urls.
CheckNext ==
    /\ batch.stage = "loop"
    /\ batch.k < Len(batch.urls)
    /\ batch' = [batch EXCEPT !.stage = "probing", !.k = @ + 1]
    /\ probe' = [NoProbe EXCEPT !.stage = "start", !.host = batch.urls[batch.k + 1],
                                !.session = "given"]
    /\ UNCHANGED outsideVars

\* is_url_downloadable returned (ok, reason): results.append((url, ok, reason))
CheckCollect ==
    /\ batch.stage = "probing"
    /\ probe.stage = "done"
    /\ probe.ok \in {"yes", "no"}
    /\ batch' = [batch EXCEPT !.stage = "loop",
                              !.results = Append(@, [url |-> probe.host,
                                                     ok |-> probe.ok,
                                                     reason |-> probe.reason])]
    /\ probe' = NoProbe
    /\ UNCHANGED outsideVars

\* is_url_downloadable raised: check_urls has no except clause, the exception
\* leaves it through `async with` and the results collected so far go with
\* the frame.
CheckRaise ==
    /\ batch.stage = "probing"
    /\ probe.stage = "done"
    /\ probe.ok = "raised"
    /\ batch' = [batch EXCEPT !.stage = "raised", !.results = <<>>]
    /\ probe' = NoProbe
    /\ UNCHANGED outsideVars

\* The loop is over: return results
CheckReturn ==
    /\ batch.stage = "loop"
    /\ batch.k = Len(batch.urls)
    /\ batch' = [batch EXCEPT !.stage = "returned"]
    /\ UNCHANGED <<probe, outsideVars>>

\* One call of check_urls.
InitCheckUrls ==
    /\ Start(0, 1, 0, FALSE, <<>>, <<>>, NoFiles)
    /\ finalName = <<>>
    /\ backoff_base = DefaultBackoffMs
    /\ sender = NoSender
    /\ nm = NoName
    /\ probe = NoProbe
    /\ NoRuns
    /\ \E us \in UrlLists(MaxChecked) :
        batch = [NoBatch EXCEPT !.stage = "loop", !.urls = us]

NextCheckUrls ==
    \/ CheckNext
    \/ ProbeBegin
    \/ HeadAnswer
    \/ HeadError
    \/ GetAnswer
    \/ GetError
    \/ CheckCollect
    \/ CheckRaise
    \/ CheckReturn

SpecCheckUrls == InitCheckUrls /\ [][NextCheckUrls]_vars

Next ==
    \/ \E i \in urls : Acquire(i)
    \/ \E i \in urls : TransportError(i)
    \/ \E i \in urls : HttpError(i)
    \/ \E i \in urls : ResponseOk(i)
    \/ \E i \in urls : Chunk(i)
    \/ \E i \in urls : StreamEnd(i)
    \/ \E i \in urls : Disconnect(i)
    \/ \E i \in urls : Wake(i)
    \/ Summarize

Spec == Init /\ [][Next]_vars

SpecFetch == InitFetch /\ [][Next]_vars

\* What urls[i]'s task and its server do.  The event loop runs every task that
\* is ready, and every request ends (with a response, an error or a timeout).
Step(i) ==
    /\ i \in urls
    /\ \/ Acquire(i) \/ TransportError(i) \/ HttpError(i) \/ ResponseOk(i)
       \/ Chunk(i) \/ StreamEnd(i) \/ Disconnect(i) \/ Wake(i)

FairSpec ==
    /\ Spec
    /\ \A i \in 1..MaxUrls : WF_vars(Step(i))
    /\ WF_vars(Summarize)

\* One transfer whose server answers or fails every request in the end, and
\* whose sleeps return.
FairSpecFetch ==
    /\ SpecFetch
    /\ \A i \in 1..MaxUrls : WF_vars(Step(i))
    /\ WF_vars(Summarize)

\* ------------------------------------------------------------------ claims
Active == {i \in urls : pc[i] \in {"get", "stream", "sleep"}}
Queued == {i \in urls : pc[i] = "queued"}
Done == {i \in urls : pc[i] = "done"}
Succeeded == {i \in urls : outcome[i] = "success"}
FailedUrls == {i \in urls : outcome[i] = "failure"}
Alone(i) == \A j \in urls \ {i} : fname[j] # fname[i]
File(i) == data[fname[i]]

\* C1: at every moment of a run the number of URLs whose download_file has
\* started and has neither returned nor raised is at most max_concurrent; the
\* semaphore's value is the number of free slots.
C1_BoundedConcurrency ==
    /\ Cardinality(Active) <= max_concurrent
    /\ sem = max_concurrent - Cardinality(Active)

\* C1 witness: more URLs than slots, two slots, both taken, one URL waiting.
C1_Witness ==
    /\ max_concurrent = 2
    /\ Cardinality(urls) > max_concurrent
    /\ Cardinality(Active) = max_concurrent
    /\ Queued # {}

\* C2: with a status callback supplied, a URL has no call before its
\* download_file ends and exactly one from then on, 'completed' for a returned
\* path and 'failed' for a raised error, also when the callback raises.
C2_StatusOnce ==
    callbacks =>
        \A i \in urls :
            /\ outcome[i] = "none" => statusCalls[i] = <<>>
            /\ outcome[i] # "none" =>
                /\ Len(statusCalls[i]) = 1
                /\ statusCalls[i][1].status =
                       (IF outcome[i] = "success" THEN "completed" ELSE "failed")

\* C2 witness: one URL reported 'completed' by a callback that raised, another
\* reported 'failed' by a callback that raised.
C2_Witness ==
    /\ callbacks
    /\ \E i, j \in urls :
        /\ statusCalls[i] = <<Call("completed", TRUE)>>
        /\ statusCalls[j] = <<Call("failed", TRUE)>>

\* C3: once the run is summarized, successful is the number of URLs whose
\* download_file returned a path, failed the number whose download_file raised,
\* and the two add up to the number of URLs.
C3_SummaryExact ==
    phase = "summarized" =>
        /\ successful = Cardinality(Succeeded)
        /\ failed = Cardinality(FailedUrls)
        /\ successful + failed = Cardinality(urls)

\* C3 witness: a summarized run of three URLs with both outcomes.
C3_Witness ==
    /\ phase = "summarized"
    /\ Cardinality(urls) = 3
    /\ successful >= 1
    /\ failed >= 1

\* A step of one URL's transfer leaves every other URL's position and outcome
\* as they were.
Isolated ==
    \A i \in urls :
        pc'[i] # pc[i] =>
            \A j \in urls \ {i} : pc'[j] = pc[j] /\ outcome'[j] = outcome[j]

\* C4: under fair scheduling every URL of a run reaches a terminal outcome, and
\* no step of one URL's transfer (a failure included) changes another URL's
\* position or outcome.
C4_EveryUrlTerminates ==
    /\ <>(\A i \in urls : outcome[i] # "none")
    /\ [][Isolated]_vars

\* C4 witness: more URLs than slots, every URL terminal, a failure among them
\* and a success among them.
C4_Witness ==
    /\ Cardinality(urls) > max_concurrent
    /\ Done = urls
    /\ Succeeded # {}
    /\ FailedUrls # {}


\* C5: a transfer whose server failed K < max_retries requests and served the
\* next one has ended in Success after exactly K + 1 GET requests.
C5_RetryThenSuccess ==
    \A i \in urls :
        pc[i] = "done" /\ srvFail[i] < max_retries =>
            /\ outcome[i] = "success"
            /\ gets[i] = srvFail[i] + 1

\* C5 witness: max_retries = 2, the first request failed, the second was
\* served: Success after two GET requests.
C5_Witness ==
    \E i \in urls :
        /\ max_retries = 2
        /\ pc[i] = "done"
        /\ srvFail[i] = 1
        /\ outcome[i] = "success"
        /\ gets[i] = 2

\* C6: the step in which a transfer ends in Failure is the failure of its
\* (max_retries + 1)-th GET request, every request before it having failed,
\* and it leaves every file as it is: nothing is deleted or truncated.
C6_FailureStep ==
    \A i \in urls :
        outcome[i] = "none" /\ outcome'[i] = "failure" =>
            /\ gets[i] = max_retries + 1
            /\ srvFail'[i] = max_retries + 1
            /\ exists' = exists
            /\ data' = data

C7_ResumeCorrect ==
    \A i \in urls :
        Alone(i) /\ IsPrefix(prestaged[fname[i]], content)
                 /\ status[i] = HTTP_PARTIAL =>
            /\ pc[i] \in {"stream", "done"}
            /\ pc[i] = "stream" => File(i) = Prefix(content, downloaded[i])
            /\ pc[i] = "done" => outcome[i] = "success" /\ File(i) = content

\* C7 witness: N bytes pre-staged with 0 < N < length, the first request
\* answered 206, Success, the file is the whole content.
C7_Witness ==
    \E i \in urls :
        /\ Len(prestaged[fname[i]]) > 0
        /\ Len(prestaged[fname[i]]) < Len(content)
        /\ IsPrefix(prestaged[fname[i]], content)
        /\ gets[i] = 1
        /\ hdrRange[i] = Len(prestaged[fname[i]])
        /\ status[i] = HTTP_PARTIAL
        /\ outcome[i] = "success"
        /\ File(i) = content

\* C8: when a GET that carried a Range header is answered 200, the resume
\* offset is dropped and the file truncated: while the body streams the file
\* is exactly the bytes of the body received, and on Success it is the whole
\* body, whatever was on disk before.
C8_RangeIgnoredRestart ==
    \A i \in urls :
        Alone(i) /\ hdrRange[i] > 0 /\ status[i] = HTTP_OK =>
            /\ pc[i] \in {"stream", "done"}
            /\ pc[i] = "stream" =>
                /\ local_size[i] = 0
                /\ mode[i] = "wb"
                /\ File(i) = Prefix(content, downloaded[i])
            /\ pc[i] = "done" => outcome[i] = "success" /\ File(i) = content

\* C8 witness: bytes of something else on disk, Range sent, 200 answered,
\* Success with the file equal to the body.
C8_Witness ==
    \E i \in urls :
        /\ prestaged[fname[i]] = <<0>>
        /\ hdrRange[i] > 0
        /\ status[i] = HTTP_OK
        /\ outcome[i] = "success"
        /\ File(i) = content

\* The downloaded_bytes of a progress_callback call is not below that of the
\* call before it.
C9_NoDrop ==
    \A i \in urls : progLast'[i].down >= progLast[i].down

ProgressCall(i) == callbacks /\ pc[i] = "stream" /\ downloaded'[i] > downloaded[i]

\* Each call reports the size the file now has.  Within one attempt a call
\* reports more than the call before; a call reports less than the call before
\* only in an attempt that writes the file from byte zero, after the server has
\* answered a Range request of this transfer with 200.
C9_AttemptStep ==
    \A i \in urls :
        Alone(i) /\ ProgressCall(i) =>
            /\ progLast'[i].down = Len(data'[fname[i]])
            /\ progLast[i].att = gets[i] => progLast'[i].down > progLast[i].down
            /\ progLast'[i].down < progLast[i].down =>
                   mode[i] = "wb" /\ restarted[i]

StrictlyInside(path) ==
    /\ Contained(DirPath, path)
    /\ Len(path) = Len(DirPath) + 1

HasTraversal(s) ==
    /\ \E k \in 1..Len(s) : s[k] \in {"/", "%2F"}
    /\ \E k \in 1..(Len(s) - 1) : s[k] \in {".", "%2E"} /\ s[k + 1] \in {".", "%2E"}

\* C10: for every URL and every filename hint the destination path is the
\* file name directly under the download directory, never the directory itself
\* or a place outside it; and a sanitized name whose path would not be under
\* the directory is replaced by a random fallback name.
C10_PathContained ==
    nm.stage = "resolved" =>
        /\ StrictlyInside(nm.filepath)
        /\ nm.filepath = Append(DirPath, nm.filename)
        /\ (Sanitized(nm.hint) # <<>>
              /\ ~Contained(DirPath, AbsJoin(DirPath, Sanitized(nm.hint)))
            => nm.filename \in Fallbacks)

\* C10 witness: a hint with ".." and a separator (plain or percent-encoded)
\* that kept a name of its own, resolved under the download directory.
C10_Witness ==
    /\ nm.stage = "resolved"
    /\ HasTraversal(nm.hint)
    /\ nm.filename \notin Fallbacks
    /\ StrictlyInside(nm.filepath)


\* What sanitize_filename returned for the hint: the name before the path test.
SanitizeResult == nm.filename

\* C11: sanitize_filename returns a non-empty name without a path separator,
\* without a whitespace character at either end and without a dot at either
\* end.
C11_SanitizedClean ==
    nm.stage = "sanitized" =>
        /\ SanitizeResult # <<>>
        /\ \A k \in 1..Len(SanitizeResult) : SanitizeResult[k] # "/"
        /\ Head(SanitizeResult) \notin Whitespace \cup {"."}
        /\ SanitizeResult[Len(SanitizeResult)] \notin Whitespace \cup {"."}

\* ------------------------------------------------------ claims on the prober
\* The host as urlparse(url).hostname gives it: in lower case.
ProbedHost == Lower(probe.host)

HeadReasons == {"head_status", "head_length_or_disposition", "head_content_type"}

\* C12: a URL whose host ends with a blocklist entry is reported not
\* downloadable with the blocked-host reason, and for it no session is created
\* and no HEAD or GET request is issued.
C12_BlockedNoNetwork ==
    (\E b \in DEFAULT_BLOCKLIST : EndsWith(ProbedHost, b)) =>
        /\ probe.sessions = 0
        /\ probe.heads = 0
        /\ probe.gets = 0
        /\ probe.stage \in {"start", "done"}
        /\ probe.stage = "done" => probe.ok = "no" /\ probe.reason = "blocked"

C12_Witness ==
    /\ probe.stage = "done"
    /\ probe.host = <<"www.", "GOOGLE.COM">>
    /\ probe.session = "none"
    /\ probe.reason = "blocked"
    /\ probe.sessions + probe.heads + probe.gets = 0

\* The HEAD request did not settle the question: it was refused with 405, it
\* timed out or raised, or it was answered below 400 without content-length,
\* content-disposition or a content type other than HTML.
HeadInconclusive(a) ==
    \/ a.kind \in ErrorKinds
    \/ /\ a.kind = "answer"
       /\ \/ a.status = HTTP_METHOD_NOT_ALLOWED
          \/ /\ a.status < HTTP_ERROR_MIN
             /\ ~a.cdisp /\ ~a.clen
             /\ a.ctype = "" \/ IsHtml(a.ctype)

\* C13: when HEAD is refused with 405, times out, raises a transport error or
\* is answered without a decisive header, a GET with Range bytes=0-0 is issued
\* and the result comes from that GET, not from the HEAD.
C13_FallsThroughToGet ==
    HeadInconclusive(probe.head) =>
        /\ probe.gets = 1
        /\ probe.stage = "done" => probe.reason \notin HeadReasons

C15_HeadNeedsLengthAndType ==
    (probe.stage = "done" /\ probe.heads = 1 /\ probe.gets = 0 /\ probe.ok = "yes") =>
        /\ probe.head.clen \/ probe.head.cdisp
        /\ probe.head.ctype # HtmlType

\* ------------------------------------------------- claims on the transfers (2)
\* The body of the response being streamed for urls[i].
Body(i) == IF status[i] = HTTP_PARTIAL THEN Suffix(content, hdrRange[i]) ELSE content

\* C16: an exception of progress_callback or of status_callback is isolated.
\* Whether or not a callback raises, the attempts made are the requests the
\* server or the transport failed, the outcome is Failure exactly when
\* max_retries + 1 requests failed, the task returns the path or the exception
\* accordingly, the bytes in the file are the bytes the server sent, and the
\* summary counts the outcomes: nothing depends on what the callbacks did.
C16_CallbackIsolated ==
    /\ \A i \in urls :
        /\ pc[i] # "raised"
        /\ attempt[i] = srvFail[i]
        /\ gets[i] = IF pc[i] = "queued" THEN 0
                     ELSE IF pc[i] = "sleep" \/ outcome[i] = "failure"
                          THEN srvFail[i]
                     ELSE srvFail[i] + 1
        /\ outcome[i] = "failure" <=> srvFail[i] = max_retries + 1
        /\ pc[i] = "done" =>
              result[i] = IF outcome[i] = "success" THEN "path" ELSE "exception"
        /\ (pc[i] = "stream" /\ Alone(i)) =>
              /\ Len(File(i)) = downloaded[i]
              /\ AppendBytes(Suffix(File(i), local_size[i]), rest[i]) = Body(i)
    /\ phase = "summarized" =>
          /\ successful = Cardinality(Succeeded)
          /\ failed = Cardinality(FailedUrls)

C16_Witness ==
    /\ phase = "summarized"
    /\ successful = 1
    /\ \E i \in urls :
        /\ outcome[i] = "success"
        /\ attempt[i] >= 1
        /\ progLast[i].raised
        /\ progLast[i].down = Len(content)
        /\ statusCalls[i] = <<Call("completed", TRUE)>>
        /\ File(i) = content

\* The response being streamed for urls[i] had no usable content-length.
TotalUnknown(i) == pc[i] = "stream" /\ total_size[i] = UnknownSize

C19_Counting ==
    \A i \in urls :
        TotalUnknown(i) =>
            /\ downloaded[i] + Len(rest[i]) = local_size[i] + Len(Body(i))
            /\ (callbacks /\ progLast[i].att = gets[i]) =>
                    /\ progLast[i].total = 0
                    /\ progLast[i].down = downloaded[i]
                    /\ downloaded[i] > local_size[i]

C19_Step ==
    \A i \in urls :
        TotalUnknown(i) =>
            /\ (callbacks /\ downloaded'[i] # downloaded[i] /\ pc'[i] = "stream") =>
                    /\ progLast'[i].total = 0
                    /\ progLast'[i].down = downloaded'[i]
                    /\ Alone(i) => Len(data'[fname[i]]) = downloaded'[i]
            /\ (rest[i] = <<>> /\ pc'[i] # pc[i]) =>
                    /\ outcome'[i] = "success"
                    /\ result'[i] = "path"
                    /\ data' = data

\* C19: a response without a content-length header, or with one that is not
\* an integer, is still streamed whole to the file and ends in Success, and
\* every progress_callback call of the attempt reports total 0 while
\* downloaded_bytes counts the bytes written.
C19_UnknownTotal == []C19_Counting /\ [][C19_Step]_vars

C19_Witness ==
    \E i \in urls :
        /\ outcome[i] = "success"
        /\ status[i] = HTTP_OK
        /\ progLast[i].att = gets[i]
        /\ progLast[i].total = 0
        /\ progLast[i].down = Len(content)
        /\ File(i) = content

\* download_file has returned or raised for urls[i].
Terminal(i) == outcome[i] # "none"

C20_Bounded ==
    \A i \in urls :
        /\ gets[i] <= max_retries + 1
        /\ attempt[i] <= max_retries + 1
        /\ Terminal(i) <=> pc[i] = "done"

C20_Quiet ==
    \A i \in urls :
        Terminal(i) =>
            /\ pc'[i] = "done" /\ outcome'[i] = outcome[i]
            /\ gets'[i] = gets[i] /\ attempt'[i] = attempt[i]
            /\ progLast'[i] = progLast[i]
            /\ statusCalls'[i] = statusCalls[i]
            /\ Alone(i) =>
                  /\ data'[fname[i]] = data[fname[i]]
                  /\ exists'[fname[i]] = exists[fname[i]]

\* C20: whatever the server does, one download_file call issues at most
\* max_retries + 1 GET requests and then returns or raises; after that it
\* issues no request, writes nothing, calls no callback and does not sleep.
C20_TerminatesWithinRetries ==
    /\ []C20_Bounded
    /\ [][C20_Quiet]_vars
    /\ <>(\A i \in urls : Terminal(i))

C20_Witness ==
    \E i \in urls :
        /\ max_retries = FetchRetries
        /\ outcome[i] = "success"
        /\ gets[i] = max_retries + 1
        /\ srvFail[i] = max_retries
        /\ phase = "summarized"

\* C18: the destination file of a resource is the one named from the
\* requested URL, fixed before the first attempt and the same on every
\* attempt, also when the request is redirected to a URL of another name: a
\* transfer creates and writes no file but that one.
C18_NameFromRequestedUrl ==
    /\ \A f \in Names :
          exists[f] =>
              \/ prestaged[f] # <<>>
              \/ \E i \in urls : fname[i] = f /\ gets[i] >= 1
    /\ \A f \in Names : (\A i \in urls : fname[i] # f) => data[f] = prestaged[f]
    /\ \A i \in urls : outcome[i] = "success" => exists[fname[i]]
    /\ \A i \in urls :
          (pc[i] = "stream" /\ Alone(i)) => Len(data[fname[i]]) = downloaded[i]

C18_Witness ==
    \E i \in urls :
        /\ finalName[i] # fname[i]
        /\ outcome[i] = "success"
        /\ attempt[i] >= 1
        /\ gets[i] = attempt[i] + 1
        /\ prestaged[fname[i]] = <<>>
        /\ File(i) = content
        /\ \A f \in Names \ {fname[i]} : ~exists[f]

\* --------------------------------------------------- claims on the two calls
\* C17: two download_multiple_files calls with different download_dir running
\* interleaved in one process do not interfere: every file of a call is
\* written inside that call's own download directory.
C17_RunsDoNotInterfere ==
    \A f \in files : f.dir = run[f.run].dir

\* --------------------------------------------------- claims on the transfers (3)
\* C21: a transfer that started from an absent file and whose server answers a
\* Range request with 206 and the requested bytes or with 200 and the whole
\* body keeps the file a leading part of the content through every failed
\* attempt, and on Success the file is the content byte for byte.
C21_RoundTrip ==
    \A i \in urls :
        (Alone(i) /\ prestaged[fname[i]] = <<>>) =>
            /\ IsPrefix(File(i), content)
            /\ pc[i] = "stream" => File(i) = Prefix(content, downloaded[i])
            /\ outcome[i] = "success" => exists[fname[i]] /\ File(i) = content

C21_Witness ==
    \E i \in urls :
        /\ prestaged[fname[i]] = <<>>
        /\ max_retries = 2
        /\ srvFail[i] = 2
        /\ gets[i] = 3
        /\ hdrRange[i] > 0 /\ hdrRange[i] < Len(content)
        /\ status[i] = HTTP_PARTIAL
        /\ outcome[i] = "success"
        /\ File(i) = content

\* The size of the destination file of urls[i], 0 when there is none.
SizeOnDisk(i) == IF exists[fname[i]] THEN Len(data[fname[i]]) ELSE 0

C22_Step ==
    \A i \in urls :
        /\ gets'[i] # gets[i] =>
              /\ gets'[i] = gets[i] + 1
              /\ hdrRange'[i] = SizeOnDisk(i)
              /\ data' = data /\ exists' = exists
        /\ (pc[i] = "get" /\ pc'[i] = "stream") =>
              /\ mode'[i] = "ab" <=> (hdrRange[i] > 0 /\ status'[i] # HTTP_OK)
              /\ exists'[fname[i]]
              /\ data'[fname[i]] = IF mode'[i] = "ab" THEN data[fname[i]] ELSE <<>>

\* C22: every GET of a transfer, the first and each retry, carries
\* Range: bytes=n- exactly when the destination file exists with n > 0 bytes at
\* the start of that attempt, n being the size on disk, and no Range header when
\* the file is absent or empty; the file is opened for appending exactly when a
\* Range was sent and the status is not 200, and is truncated otherwise.
C22_RangeMatchesDisk == [][C22_Step]_vars

C22_Witness ==
    \E i \in urls :
        /\ prestaged[fname[i]] = <<>>
        /\ gets[i] = 2
        /\ pc[i] = "stream"
        /\ hdrRange[i] = 2
        /\ status[i] = HTTP_PARTIAL
        /\ mode[i] = "ab"
        /\ File(i) = Prefix(content, 2)

C23_Step ==
    \A i \in urls :
        (pc[i] = "get" /\ attempt'[i] = attempt[i] + 1) =>
            /\ exists' = exists /\ data' = data
            /\ srvFail'[i] = srvFail[i] + 1
            /\ pc'[i] = "sleep" <=> attempt'[i] <= max_retries
            /\ pc'[i] # "sleep" => outcome'[i] = "failure"

C23_NoFile ==
    \A i \in urls :
        /\ (pc[i] = "sleep" /\ status[i] >= HTTP_ERROR_MIN) => attempt[i] >= 1
        /\ (pc[i] = "done" /\ ~opened[i]) =>
              outcome[i] = "failure" /\ gets[i] = max_retries + 1
        /\ (Alone(i) /\ ~opened[i]) =>
              /\ exists[fname[i]] <=> prestaged[fname[i]] # <<>>
              /\ File(i) = prestaged[fname[i]]

\* C23: an attempt answered with a status >= 400 counts as a failed attempt
\* like a transport error (retried while retries are left, Failure otherwise)
\* and leaves every file as it was; a transfer none of whose requests got an
\* answer below 400 and that found no file ends in Failure with no file on disk.
C23_HttpErrorLeavesFiles == []C23_NoFile /\ [][C23_Step]_vars

C23_Witness ==
    \E i \in urls :
        /\ prestaged[fname[i]] = <<>>
        /\ pc[i] = "sleep"
        /\ status[i] = 404
        /\ attempt[i] = 2
        /\ ~opened[i]
        /\ ~exists[fname[i]]

\* The transfers that hold their destination file open.
Writing == {i \in urls : pc[i] = "stream"}

\* C24: no two transfers of a run that are active at the same time write to
\* the same destination path, also when two URLs of the list have the same
\* sanitized file name.
C24_OwnFileOnly ==
    \A i \in Writing : \A j \in Writing \ {i} : Dest(i) # Dest(j)

\* The delay before retry number k without the jitter, in milliseconds.
NominalDelay(k) == backoff_base * 2^(k - 1)

C25_Delay ==
    \A i \in urls :
        /\ pc[i] = "sleep" =>
              /\ outcome[i] = "none"
              /\ attempt[i] \in 1..max_retries
              /\ 800 * NominalDelay(attempt[i]) <= sleep_for[i]
              /\ sleep_for[i] <= 1200 * NominalDelay(attempt[i])
        /\ pc[i] # "sleep" => sleep_for[i] = 0

C25_Step ==
    \A i \in urls :
        /\ (pc'[i] = "sleep" /\ pc[i] # "sleep") => attempt'[i] = attempt[i] + 1
        /\ (attempt'[i] = attempt[i] + 1 /\ attempt'[i] <= max_retries) =>
              pc'[i] = "sleep"
        /\ (attempt'[i] = attempt[i] + 1 /\ attempt'[i] > max_retries) =>
              pc'[i] = "done" /\ sleep_for'[i] = 0
        /\ outcome'[i] = "success" => sleep_for'[i] = 0

\* C25: after failed attempt k = 1..max_retries a transfer sleeps for d with
\* 0.8 * backoff_base * 2^(k-1) <= d <= 1.2 * backoff_base * 2^(k-1); it does
\* not sleep after failed attempt max_retries + 1 nor after a success.
C25_BackoffBounds == []C25_Delay /\ [][C25_Step]_vars

C25_Witness ==
    \E i \in urls :
        /\ max_retries = 2
        /\ pc[i] = "sleep"
        /\ attempt[i] = 2
        /\ backoff_base = DefaultBackoffMs
        /\ sleep_for[i] = 1198 * 2 * DefaultBackoffMs

\* C26: the consumer never loses a payload.  Every payload it dequeued, and
\* every entry of the spool it started with, has been posted, or is in the
\* spool file, or is the payload being posted right now; and when the consumer
\* takes the next payload from the queue, every entry the spool held at the
\* top of the iteration has been tried.
C26_NoPayloadLost ==
    /\ \A m \in sender.owed :
        \/ m \in sender.posted
        \/ m \in Elements(sender.spool)
        \/ sender.pc = "post_msg" /\ sender.msg = m
    /\ sender.pc = "get" =>
        \A m \in Elements(sender.spool) \ {CORRUPT} :
            m \in sender.tried \/ m \in sender.posted

\* C27: a transfer holds its slot from admission until its status callback has
\* returned, sleeps between attempts included.  The semaphore moves only in
\* the step that admits one transfer (down by one) and in the step that ends
\* one (up by one, the same step that records the outcome and the status
\* call, on success and on failure alike); a transfer that ended never holds
\* or releases again; and a run that ended has all max_concurrent slots free.
Holding(i) == pc[i] \in {"get", "stream", "sleep"}

C27_Step ==
    LET admitted == {i \in urls : pc[i] = "queued" /\ pc'[i] # "queued"}
        ended == {i \in urls : pc[i] # "done" /\ pc'[i] = "done"}
    IN  /\ sem' = sem - Cardinality(admitted) + Cardinality(ended)
        /\ Cardinality(admitted) + Cardinality(ended) <= 1
        /\ \A i \in admitted : Holding(i)'
        /\ \A i \in ended :
            /\ Holding(i)
            /\ outcome[i] = "none" /\ outcome'[i] \in {"success", "failure"}
            /\ statusCalls[i] = <<>>
            /\ callbacks => Len(statusCalls'[i]) = 1
        /\ \A i \in urls :
            /\ pc[i] = "done" => pc'[i] = "done" /\ statusCalls'[i] = statusCalls[i]
            /\ Holding(i) /\ pc'[i] # "done" => Holding(i)'

C27_Free ==
    /\ \A i \in urls : callbacks /\ statusCalls[i] = <<>> => pc[i] # "done"
    /\ phase = "summarized" => sem = max_concurrent

C27_SlotHeldUntilStatus == []C27_Free /\ [][C27_Step]_vars

\* C27 witness: one slot, held by a transfer that sleeps before its second
\* attempt while another URL waits for the slot.
C27_Witness ==
    /\ max_concurrent = 1
    /\ sem = 0
    /\ \E i \in urls, j \in urls :
        /\ pc[i] = "sleep" /\ attempt[i] = 1
        /\ pc[j] = "queued"

\* The filename of download_with_semaphore, handed to status_callback and to
\* download_file as the hint: the base name of the URL, or a random name.
StatusName == nm.hint

\* The filename of download_file after the path is settled: the name handed to
\* progress_callback and the base name of the file on disk.
ProgressName == nm.filename

\* C28: for a resource of a run the filename passed to status_callback is the
\* filename passed to progress_callback and the base name of the file written.
C28_OneNamePerResource ==
    /\ nm.stage = "resolved"
    /\ StatusName # <<>>
    /\ StatusName = Basename(nm.text) \/ StatusName \in Fallbacks
    => /\ StatusName = ProgressName
       /\ nm.filepath = Append(DirPath, StatusName)

\* The destination of urls[i] held the whole content before the transfer, and
\* no request of urls[i] got an answer below 400 so far.
CompleteAndRefused(i) ==
    /\ content # <<>>
    /\ prestaged[fname[i]] = content
    /\ ~opened[i]

\* Every GET of such a transfer carries Range: bytes=<size>-, and no step
\* changes the file.
C29_Step ==
    \A i \in urls :
        CompleteAndRefused(i) /\ ~opened'[i] =>
            /\ gets'[i] = gets[i] + 1 =>
                  hdrRange'[i] = Len(content) /\ local_size'[i] = Len(content)
            /\ exists' = exists /\ data' = data

C29_State ==
    \A i \in urls :
        CompleteAndRefused(i) =>
            /\ exists[fname[i]] /\ data[fname[i]] = content
            /\ pc[i] = "get" => hdrRange[i] = Len(content) /\ gets[i] = attempt[i] + 1
            /\ pc[i] = "sleep" => gets[i] = attempt[i] /\ attempt[i] <= max_retries
            /\ outcome[i] # "success"
            /\ pc[i] = "done" =>
                /\ outcome[i] = "failure"
                /\ gets[i] = max_retries + 1
                /\ srvFail[i] = max_retries + 1

\* C29: a destination that already holds the complete content, and a server
\* that answers each Range request with an error status (416): each of the
\* max_retries + 1 attempts sends the same Range: bytes=<size>-, none is sent
\* without the header, the outcome is Failure, and the file is left as it was.
C29_CompleteFileRefused == []C29_State /\ [][C29_Step]_vars

\* C29 witness: the file is complete, the second Range request was answered
\* with 416 like the first, and the transfer sleeps before its third.
C29_Witness ==
    \E i \in urls :
        /\ CompleteAndRefused(i)
        /\ max_retries = 2
        /\ pc[i] = "sleep"
        /\ status[i] = 416
        /\ attempt[i] = 2
        /\ gets[i] = 2
        /\ data[fname[i]] = content

\* C30: check_urls returns one (url, ok, reason) entry per input URL, in input
\* order, whatever the HEAD and GET probes of the URLs come to, a transport
\* error or a timeout of a GET probe included: it never ends by an exception
\* that takes the results of the other URLs with it.
C30_OneEntryPerUrl ==
    /\ batch.stage # "raised"
    /\ batch.stage = "returned" =>
        /\ Len(batch.results) = Len(batch.urls)
        /\ \A k \in 1..Len(batch.urls) :
            /\ batch.results[k].url = batch.urls[k]
            /\ batch.results[k].ok \in {"yes", "no"}

====
